---------------------------- MODULE Spec2Model ----------------------------
(***************************************************************************)
(* A model of kyontan/cloud_function_github: the GitHub-webhook Cloud      *)
(* Function that reads the Java enum sources of a pushed commit, parses    *)
(* each enum declaration, guesses a column type per position and loads the *)
(* rows into a BigQuery table named after the enum.                        *)
(*                                                                         *)
(* JavaScript strings are sequences of one-character strings, so that the  *)
(* regular expressions of the source can be modelled character by          *)
(* character.  JavaScript values are records [t, s, n]: a string (t="str", *)
(* its characters in s), a number (t="num", its value in n) or undefined.  *)
(***************************************************************************)
EXTENDS Integers, Sequences, FiniteSets

VARIABLES
    pc,             \* position of the modelled call or of the webhook handler
    rows,           \* guessSchema: its argument
    field_types,    \* guessSchema: its result
    str,            \* camelToSnakeCase: its argument
    snake,          \* camelToSnakeCase: its result
    impl,           \* which handler source runs: "index.js" or "part_000"
    decl,           \* how the source text at hand was written (its parts)
    source_code,    \* parseEnumDeclaration: its argument
    parsed,         \* parseEnumDeclaration: its result
    table_id,       \* insertRowsToBigQuery: argument tableId
    bq_schema_fields, \* insertRowsToBigQuery: argument tableSchemaFields
    bq_rows,        \* insertRowsToBigQuery: argument rows
    req,            \* the webhook request: signature, event, ref, files
    response,       \* res: the status set and whether it has been sent
    fetched,        \* how many source files getContent has delivered
    loads,          \* the calls of insertRowsToBigQuery of the event
    tables          \* the BigQuery dataset: for each table id its rows

guessVars == <<rows, field_types>>
camelVars == <<str, snake>>
coreVars == <<impl, decl, source_code, parsed, table_id, bq_schema_fields, bq_rows>>
handlerVars == <<req, response, fetched, loads, tables>>
vars == <<pc, guessVars, camelVars, coreVars, handlerVars>>

---------------------------------------------------------------------------
(* JavaScript values                                                       *)

Str(s) == [t |-> "str", s |-> s, n |-> 0]
Num(n) == [t |-> "num", s |-> <<>>, n |-> n]
Undefined == [t |-> "undef", s |-> <<>>, n |-> 0]

Upper == {"A","B","C","D","E","F","G","H","I","J","K","L","M",
          "N","O","P","Q","R","S","T","U","V","W","X","Y","Z"}
UpperSeq == <<"A","B","C","D","E","F","G","H","I","J","K","L","M",
              "N","O","P","Q","R","S","T","U","V","W","X","Y","Z">>
LowerSeq == <<"a","b","c","d","e","f","g","h","i","j","k","l","m",
              "n","o","p","q","r","s","t","u","v","w","x","y","z">>
DigitSeq == <<"0","1","2","3","4","5","6","7","8","9">>
Digit == {DigitSeq[i] : i \in 1..10}

\* the value of a decimal digit character
DigitValue(c) == (CHOOSE i \in 1..10 : DigitSeq[i] = c) - 1

\* Number.prototype.toString for a non-negative integer
RECURSIVE NumberToString(_)
NumberToString(n) ==
    IF n < 10 THEN <<DigitSeq[n + 1]>>
    ELSE NumberToString(n \div 10) \o <<DigitSeq[(n % 10) + 1]>>

\* the JSToString conversion RegExp.prototype.test applies to its argument
JSToString(x) ==
    CASE x.t = "str" -> x.s
      [] x.t = "num" -> NumberToString(x.n)
      [] OTHER -> <<"u","n","d","e","f","i","n","e","d">>

\* JavaScript truthiness, as used by filter(x => x) and if (values[i])
Truthy(x) ==
    CASE x.t = "str" -> x.s # <<>>
      [] x.t = "num" -> x.n # 0
      [] OTHER -> FALSE

Max(S) == CHOOSE m \in S : \A k \in S : k <= m
Min(S) == CHOOSE m \in S : \A k \in S : m <= k

---------------------------------------------------------------------------
(* guessSchema                                                             *)

\* variant, for sensitivity: the pattern with * for +, /^[0-9]*$/, which the empty string passes
IsAllDigits_Star(x) ==
    LET s == JSToString(x)
    IN  \A i \in 1..Len(s) : s[i] \in Digit

\* /^[0-9]+$/.test(x)
IsAllDigits(x) ==
    LET s == JSToString(x)
    IN  Len(s) > 0 /\ \A i \in 1..Len(s) : s[i] \in Digit

\* parseInt(s, 10) of a string of decimal digits
RECURSIVE parseInt(_)
parseInt(s) ==
    IF s = <<>> THEN 0
    ELSE 10 * parseInt(SubSeq(s, 1, Len(s) - 1)) + DigitValue(s[Len(s)])

parseIntIfParsable(x) ==
    IF IsAllDigits(x) THEN Num(parseInt(JSToString(x))) ELSE x

\* a[r][c], undefined beyond the end of the row
At(row, c) == IF c <= Len(row) THEN row[c] ELSE Undefined

\* Math.max(...a.map(x => x.length)); -Infinity (no column) for no row
Cols(a) == IF a = <<>> THEN 0 ELSE Max({Len(a[r]) : r \in 1..Len(a)})

\* variant, for sensitivity: a column collects only the rows that have an entry at c
transpose_SuppliedOnly(a) ==
    [c \in 1..Cols(a) |->
        LET has == SelectSeq(a, LAMBDA row : c <= Len(row))
        IN  [r \in 1..Len(has) |-> has[r][c]]]

transpose(a) ==
    [c \in 1..Cols(a) |-> [r \in 1..Len(a) |-> At(a[r], c)]]

isBoolean(x) == x = Str(<<"t","r","u","e">>) \/ x = Str(<<"f","a","l","s","e">>)

isNumber(x) == x.t = "num"

\* the type of one transposed column
GuessColumn(x) ==
    IF \A i \in 1..Len(x) : isBoolean(x[i]) THEN "boolean"
    ELSE IF \A i \in 1..Len(x) : isNumber(parseIntIfParsable(x[i])) THEN "integer"
    ELSE "string"

\* .filter(x => x) keeps every column: an array is truthy
guessSchema(a) ==
    LET t == transpose(a)
    IN  [c \in 1..Len(t) |-> GuessColumn(t[c])]


---------------------------------------------------------------------------
(* Calls of guessSchema on bounded inputs                                  *)

MaxRows == 2
MaxCells == 4

\* "true", "false", "12", "-1", "1.5", "" and the number 0
GuessValues ==
    { Str(<<"t","r","u","e">>), Str(<<"f","a","l","s","e">>), Str(<<"1","2">>),
      Str(<<"-","1">>), Str(<<"1",".","5">>), Str(<<>>), Num(0) }

NoTypes == <<>>
NoStr == <<>>
NoDecl == [family |-> "none"]
NoFields == <<>>
NoReq == [signature |-> "none"]
NoResponse == [status |-> 0, sent |-> FALSE]
NoTables == <<>>

\* the variables of the calls that are not under way
GuessIdle == rows = <<>> /\ field_types = NoTypes
CamelIdle == str = NoStr /\ snake = NoStr
CoreIdle ==
    /\ impl = "part_000" /\ decl = NoDecl /\ source_code = NoStr
    /\ parsed = [isnull |-> TRUE, name |-> <<>>, values |-> <<>>]
    /\ table_id = NoStr /\ bq_schema_fields = NoFields /\ bq_rows = <<>>
HandlerIdle ==
    /\ req = NoReq /\ response = NoResponse /\ fetched = 0
    /\ loads = <<>> /\ tables = NoTables

\* the number of values of all rows of a
RECURSIVE CellCount(_)
CellCount(a) == IF a = <<>> THEN 0 ELSE Len(Head(a)) + CellCount(Tail(a))

\* The caller builds the argument: at most MaxRows rows (of any lengths,
\* ragged or not) holding at most MaxCells values in all.
GuessInit ==
    /\ pc = "guess_build"
    /\ rows = <<>>
    /\ field_types = NoTypes
    /\ CamelIdle
    /\ CoreIdle
    /\ HandlerIdle

PushRow ==
    /\ pc = "guess_build"
    /\ Len(rows) < MaxRows
    /\ rows' = Append(rows, <<>>)
    /\ UNCHANGED <<pc, field_types, camelVars, coreVars, handlerVars>>

PushValue ==
    /\ pc = "guess_build"
    /\ rows # <<>>
    /\ CellCount(rows) < MaxCells
    /\ \E v \in GuessValues :
          rows' = [rows EXCEPT ![Len(rows)] = Append(@, v)]
    /\ UNCHANGED <<pc, field_types, camelVars, coreVars, handlerVars>>

GuessSchema ==
    /\ pc = "guess_build"
    /\ field_types' = guessSchema(rows)
    /\ pc' = "guess_ret"
    /\ UNCHANGED <<rows, camelVars, coreVars, handlerVars>>

GuessNext == PushRow \/ PushValue \/ GuessSchema

SpecGuess == GuessInit /\ [][GuessNext]_vars

---------------------------------------------------------------------------
(* Claims about guessSchema                                                *)

Rectangular(a) == \A i, j \in 1..Len(a) : Len(a[i]) = Len(a[j])

\* the value is exactly "true" or "false"
ValueIsTrueFalse(v) ==
    v.t = "str" /\ v.s \in {<<"t","r","u","e">>, <<"f","a","l","s","e">>}

\* the value is written with decimal digits only: a numeral without sign or point
ValueIsDigitsOnly(v) ==
    \/ v.t = "num" /\ v.n >= 0
    \/ v.t = "str" /\ v.s # <<>> /\ \A i \in 1..Len(v.s) : v.s[i] \in Digit

\* the type the rule boolean, then integer, else string gives a set of values
TypeOfValues(V) ==
    IF \A v \in V : ValueIsTrueFalse(v) THEN "boolean"
    ELSE IF \A v \in V : ValueIsDigitsOnly(v) THEN "integer"
    ELSE "string"

\* the values the rows that are long enough supply at position c
SuppliedAt(a, c) == {a[r][c] : r \in {k \in 1..Len(a) : c <= Len(a[k])}}

LongestRow(a) == IF a = <<>> THEN 0 ELSE Max({Len(a[r]) : r \in 1..Len(a)})

\* C1: on rows that all have the same length guessSchema returns one type per
\* column, 'boolean' iff every value of the column is "true" or "false",
\* otherwise 'integer' iff every value is digits only, otherwise 'string'.
C1_GuessSchemaRectangular ==
    (pc = "guess_ret" /\ Rectangular(rows)) =>
        /\ Len(field_types) = LongestRow(rows)
        /\ \A c \in 1..LongestRow(rows) :
              field_types[c] = TypeOfValues(SuppliedAt(rows, c))

\* C1 witness: two rows of two values; the first column is boolean, and one
\* non-digit value beside a digit string makes the second column a string
C1_Witness ==
    /\ pc = "guess_ret"
    /\ Len(rows) = 2 /\ Len(rows[1]) = 2 /\ Len(rows[2]) = 2
    /\ ValueIsDigitsOnly(rows[1][2]) /\ ~ValueIsDigitsOnly(rows[2][2])
    /\ field_types = <<"boolean", "string">>

\* C2 as stated: on ragged rows the type of column c is decided only from the
\* rows that have an entry at position c.
C2_Original_SuppliedValuesDecide ==
    pc = "guess_ret" =>
        /\ Len(field_types) = LongestRow(rows)
        /\ \A c \in 1..LongestRow(rows) :
              field_types[c] = TypeOfValues(SuppliedAt(rows, c))

\* C2 amended: guessSchema returns one type per column position up to the
\* longest row's length; a row shorter than c+1 contributes an undefined
\* entry to column c, so a column some row lacks is 'string', and a column
\* every row supplies is typed from its values.
C2_GuessSchemaRagged ==
    pc = "guess_ret" =>
        /\ Len(field_types) = LongestRow(rows)
        /\ \A c \in 1..LongestRow(rows) :
              IF \E r \in 1..Len(rows) : Len(rows[r]) < c
              THEN field_types[c] = "string"
              ELSE field_types[c] = TypeOfValues(SuppliedAt(rows, c))

\* C2 witness: a ragged input whose second column holds digit strings only
\* in the rows that supply it, and is reported as a string
C2_Witness ==
    /\ pc = "guess_ret"
    /\ Len(rows) = 2 /\ Len(rows[1]) = 1 /\ Len(rows[2]) = 2
    /\ ValueIsDigitsOnly(rows[2][2])
    /\ field_types[2] = "string"

---------------------------------------------------------------------------
(* camelToSnakeCase                                                        *)

\* String.prototype.toLowerCase on one character
ToLowerChar(c) ==
    IF c \in Upper THEN LowerSeq[CHOOSE i \in 1..26 : UpperSeq[i] = c] ELSE c

toLowerCase(s) == [i \in 1..Len(s) |-> ToLowerChar(s[i])]

\* The loop of String.prototype.split for the empty-width pattern (?=[A-Z]):
\* p is the start of the current segment and q the position tried; a match
\* at q = p is skipped, a match at q > p ends the segment before q.
RECURSIVE SplitLoop(_, _, _, _)
SplitLoop(s, p, q, acc) ==
    IF q > Len(s) THEN Append(acc, SubSeq(s, p, Len(s)))
    ELSE IF s[q] \in Upper /\ q # p
         THEN SplitLoop(s, q, q, Append(acc, SubSeq(s, p, q - 1)))
         ELSE SplitLoop(s, p, q + 1, acc)

\* variant, for sensitivity: split only where an uppercase letter follows a non-uppercase one,
\* so that a run of capitals stays one segment
split_AcronymRuns(s) ==
    LET cuts == {q \in 2..Len(s) : s[q] \in Upper /\ s[q - 1] \notin Upper}
        RECURSIVE Segs(_)
        Segs(p) ==
            IF \E q \in cuts : q > p
            THEN LET q == Min({k \in cuts : k > p})
                 IN  <<SubSeq(s, p, q - 1)>> \o Segs(q)
            ELSE <<SubSeq(s, p, Len(s))>>
    IN  Segs(1)

\* str.split(/(?=[A-Z])/)
split(s) == IF s = <<>> THEN <<(<<>>)>> ELSE SplitLoop(s, 1, 1, <<>>)

\* Array.prototype.join
RECURSIVE join(_, _)
join(segs, sep) ==
    IF segs = <<>> THEN <<>>
    ELSE IF Len(segs) = 1 THEN segs[1]
    ELSE segs[1] \o sep \o join(Tail(segs), sep)

camelToSnakeCase(s) == toLowerCase(join(split(s), <<"_">>))

---------------------------------------------------------------------------
(* Calls of camelToSnakeCase on bounded identifiers                        *)

MaxIdLen == 4

IdChars == {"S", "E", "H", "o", "m", "_", "1"}

SomeEnum == <<"S","o","m","e","E","n","u","m">>
HOGE == <<"H","O","G","E">>
HTTPServer == <<"H","T","T","P","S","e","r","v","e","r">>

CamelInit ==
    /\ pc = "camel_call"
    /\ str \in UNION {[1..n -> IdChars] : n \in 1..MaxIdLen}
                 \cup {SomeEnum, HOGE, HTTPServer}
    /\ snake = NoStr
    /\ GuessIdle
    /\ CoreIdle
    /\ HandlerIdle

CamelToSnakeCase ==
    /\ pc = "camel_call"
    /\ snake' = camelToSnakeCase(str)
    /\ pc' = "camel_ret"
    /\ UNCHANGED <<str, guessVars, coreVars, handlerVars>>

SpecCamel == CamelInit /\ [][CamelToSnakeCase]_vars

\* the identifier lowercased, with one underscore before every uppercase
\* letter that is not its first character
RECURSIVE SnakeOf(_, _)
SnakeOf(s, i) ==
    IF i > Len(s) THEN <<>>
    ELSE (IF i > 1 /\ s[i] \in Upper THEN <<"_">> ELSE <<>>)
         \o <<ToLowerChar(s[i])>> \o SnakeOf(s, i + 1)

\* C8: camelToSnakeCase returns the identifier lowercased with one underscore
\* inserted before each uppercase letter that is not the first character,
\* every letter of a run of capitals starting its own segment; "SomeEnum"
\* gives "some_enum", "HOGE" "h_o_g_e" and "HTTPServer" "h_t_t_p_server".
C8_CamelToSnakeCase ==
    pc = "camel_ret" =>
        /\ snake = SnakeOf(str, 1)
        /\ str = SomeEnum => snake = <<"s","o","m","e","_","e","n","u","m">>
        /\ str = HOGE => snake = <<"h","_","o","_","g","_","e">>
        /\ str = HTTPServer =>
              snake = <<"h","_","t","_","t","_","p","_","s","e","r","v","e","r">>

\* C8 witness: a run of capitals has been converted, one segment per letter
C8_Witness ==
    /\ pc = "camel_ret"
    /\ str = HTTPServer
    /\ snake = <<"h","_","t","_","t","_","p","_","s","e","r","v","e","r">>

---------------------------------------------------------------------------
(* parseEnumDeclaration: the regular expressions                           *)

\* \s, . and the character classes of re_key
WhiteSpace == {" ", "\t", "\n", "\r"}
LineTerminator == {"\n", "\r"}
KeyStart == Upper \cup {"_"}
KeyChar == Upper \cup Digit \cup {"_"}

\* the literal text lit stands in t at position i
MatchesAt(t, i, lit) ==
    i + Len(lit) - 1 <= Len(t) /\ SubSeq(t, i, i + Len(lit) - 1) = lit

\* the last position of the longest run of characters of class C from i on
\* (i - 1 for an empty run): a greedy C*
RECURSIVE RunEnd(_, _, _)
RunEnd(t, i, C) ==
    IF i <= Len(t) /\ t[i] \in C THEN RunEnd(t, i + 1, C) ELSE i - 1

\* the position after a greedy \s* from i on
SkipWs(t, i) == RunEnd(t, i, WhiteSpace) + 1

\* the first position >= i holding character c, 0 for none
FirstAt(t, i, c) ==
    LET S == {k \in i..Len(t) : t[k] = c}
    IN  IF S = {} THEN 0 ELSE Min(S)

NoMatch == [ok |-> FALSE, name |-> <<>>, section |-> <<>>]

\* One attempt of re_whole_enum = / enum ([^\s]+).*?((?:\n.*?)*?);/m at
\* position i.  The name is the longest part e of the run of non-blanks
\* after " enum " for which the rest matches (greedy, given back on
\* backtracking).  .*?((?:\n.*?)*?) is lazy and ends at the first ";"
\* after the name; "." matches no line terminator and only "\n" starts a
\* further line, so a "\r" before that ";" fails the attempt.  Group 2
\* starts at the first "\n" after the name.
re_whole_enum_at(t, i) ==
    LET p == i + 6
        runEnd == RunEnd(t, p, {c \in {t[k] : k \in 1..Len(t)} : c \notin WhiteSpace})
        semi(e) == FirstAt(t, e + 1, ";")
        feasible(e) == /\ semi(e) # 0
                       /\ \A k \in (e + 1)..(semi(e) - 1) : t[k] # "\r"
        ends == {e \in p..runEnd : feasible(e)}
    IN  IF MatchesAt(t, i, <<" ","e","n","u","m"," ">>) /\ ends # {}
        THEN LET e == Max(ends)
                 q == semi(e)
                 nl == FirstAt(t, e + 1, "\n")
             IN  [ok |-> TRUE,
                  name |-> SubSeq(t, p, e),
                  section |-> IF nl # 0 /\ nl < q THEN SubSeq(t, nl, q - 1)
                              ELSE <<>>]
        ELSE NoMatch

\* re_whole_enum.exec(source_code): the leftmost position that matches
re_whole_enum_exec(t) ==
    LET starts == {i \in 1..Len(t) : re_whole_enum_at(t, i).ok}
    IN  IF starts = {} THEN NoMatch ELSE re_whole_enum_at(t, Min(starts))

\* re_key = ([A-Z_][A-Z0-9_]*) at position i: the end of the key, 0 for none
KeyEnd(t, i) ==
    IF i <= Len(t) /\ t[i] \in KeyStart THEN RunEnd(t, i + 1, KeyChar) ELSE 0

\* re_test_enum_with_paren.test(section): KEY\s*\(.*\) somewhere
re_test_enum_with_paren(t) ==
    \E i \in 1..Len(t) :
        /\ KeyEnd(t, i) # 0
        /\ LET j == SkipWs(t, KeyEnd(t, i) + 1)
           IN  /\ j <= Len(t) /\ t[j] = "("
               /\ \E m \in (j + 1)..Len(t) :
                     /\ t[m] = ")"
                     /\ \A k \in (j + 1)..(m - 1) : t[k] \notin LineTerminator

\* The ways re_literal matches at position p, in the order the matcher
\* tries them: [end, alt, val], alt the capture group of the literal
\* (1: true|false|numeral, 2: '...', 3: "...") and val what it captures.
\* A numeral is tried longest first, with its decimal before without; a
\* quoted literal (lazy) ends at each later quote of its line, nearest first.
QuotedOptions(t, p, alt) ==
    LET closes == {m \in (p + 1)..Len(t) :
                      /\ t[m] = t[p]
                      /\ \A k \in (p + 1)..(m - 1) : t[k] \notin LineTerminator}
        RECURSIVE InOrder(_)
        InOrder(S) ==
            IF S = {} THEN <<>>
            ELSE <<[end |-> Min(S), alt |-> alt,
                    val |-> SubSeq(t, p + 1, Min(S) - 1)]>>
                 \o InOrder(S \ {Min(S)})
    IN  InOrder(closes)

NumeralOptions(t, p) ==
    LET d == RunEnd(t, p, Digit)
        dec == IF d + 2 <= Len(t) /\ t[d + 1] = "." /\ t[d + 2] \in Digit
               THEN <<[end |-> d + 2, alt |-> 1, val |-> SubSeq(t, p, d + 2)]>>
               ELSE <<>>
        RECURSIVE Shorter(_)
        Shorter(e) ==
            IF e < p THEN <<>>
            ELSE <<[end |-> e, alt |-> 1, val |-> SubSeq(t, p, e)]>> \o Shorter(e - 1)
    IN  dec \o Shorter(d)

re_literal_at(t, p) ==
    IF p > Len(t) THEN <<>>
    ELSE IF MatchesAt(t, p, <<"t","r","u","e">>)
         THEN <<[end |-> p + 3, alt |-> 1, val |-> <<"t","r","u","e">>]>>
    ELSE IF MatchesAt(t, p, <<"f","a","l","s","e">>)
         THEN <<[end |-> p + 4, alt |-> 1, val |-> <<"f","a","l","s","e">>]>>
    ELSE IF t[p] \in Digit THEN NumeralOptions(t, p)
    ELSE IF t[p] = "'" THEN QuotedOptions(t, p, 2)
    ELSE IF t[p] = "\"" THEN QuotedOptions(t, p, 3)
    ELSE <<>>

ParenFail == [ok |-> FALSE, end |-> 0, key |-> <<>>, lits |-> <<>>]

\* The rest of re_enum_with_paren after a literal that ends before position
\* p: re_label (\s*,\s* and a literal) as often as it matches, the first two
\* by the groups re_label? re_label? and the others by re_label*, then \s*\).
\* After the greedy \s* the next character decides between a further label
\* and the closing parenthesis; when a choice of literal fails further on,
\* the matcher backtracks to the literal's next way of matching.
RECURSIVE LabelsFrom(_, _, _), TryLiterals(_, _, _, _)
LabelsFrom(t, p, lits) ==
    LET c == SkipWs(t, p)
    IN  IF c > Len(t) THEN ParenFail
        ELSE IF t[c] = "," THEN TryLiterals(t, re_literal_at(t, SkipWs(t, c + 1)), 1, lits)
        ELSE IF t[c] = ")" THEN [ok |-> TRUE, end |-> c, key |-> <<>>, lits |-> lits]
        ELSE ParenFail

TryLiterals(t, opts, k, lits) ==
    IF k > Len(opts) THEN ParenFail
    ELSE LET r == LabelsFrom(t, opts[k].end + 1, Append(lits, opts[k]))
         IN  IF r.ok THEN r ELSE TryLiterals(t, opts, k + 1, lits)

\* one attempt of re_enum_with_paren at position i
re_enum_with_paren_at(t, i) ==
    IF KeyEnd(t, i) = 0 THEN ParenFail
    ELSE LET j == SkipWs(t, KeyEnd(t, i) + 1)
         IN  IF j <= Len(t) /\ t[j] = "("
             THEN LET r == TryLiterals(t, re_literal_at(t, SkipWs(t, j + 1)), 1, <<>>)
                  IN  IF r.ok THEN [r EXCEPT !.key = SubSeq(t, i, KeyEnd(t, i))]
                      ELSE ParenFail
             ELSE ParenFail

\* The capture groups 2..4 (or 5..7, 8..10, 11..13) of one literal: the
\* group of the alternative that matched holds the text, the others are
\* undefined; a label group that took no part is undefined throughout.
LiteralGroups(lits, k) ==
    [g \in 1..3 |-> IF k <= Len(lits) /\ lits[k].alt = g
                    THEN Str(lits[k].val) ELSE Undefined]

\* m.slice(1): the key, the groups of the code and of the first two labels,
\* and the groups of re_label*, which hold its last repetition
MatchGroups(r) ==
    <<Str(r.key)>>
    \o LiteralGroups(r.lits, 1) \o LiteralGroups(r.lits, 2) \o LiteralGroups(r.lits, 3)
    \o LiteralGroups(r.lits, IF Len(r.lits) >= 4 THEN Len(r.lits) ELSE 4)

---------------------------------------------------------------------------
(* parseEnumDeclaration                                                    *)

Null == [isnull |-> TRUE, name |-> <<>>, values |-> <<>>]

\* the loop over re_enum_without_paren.exec: matched.push([m[1], autoindex_code++])
RECURSIVE BareMatches(_, _, _)
BareMatches(t, from, autoindex_code) ==
    LET starts == {i \in from..Len(t) : KeyEnd(t, i) # 0}
    IN  IF starts = {} THEN <<>>
        ELSE LET i == Min(starts)
             IN  << <<Str(SubSeq(t, i, KeyEnd(t, i))), Num(autoindex_code)>> >>
                 \o BareMatches(t, KeyEnd(t, i) + 1, autoindex_code + 1)

\* the loop over re_enum_with_paren.exec: matched.push(m.slice(1).filter(x => x))
RECURSIVE ParenMatches(_, _)
ParenMatches(t, from) ==
    LET starts == {i \in from..Len(t) : re_enum_with_paren_at(t, i).ok}
    IN  IF starts = {} THEN <<>>
        ELSE LET m == re_enum_with_paren_at(t, Min(starts))
             IN  <<SelectSeq(MatchGroups(m), Truthy)>> \o ParenMatches(t, m.end + 1)

\* variant, for sensitivity: the ordinals of the constants without parentheses start at 1
parseEnumDeclaration_OneBased(source) ==
    LET whole_matched == re_whole_enum_exec(source)
        enum_value_section == whole_matched.section
    IN  IF ~whole_matched.ok THEN Null
        ELSE [isnull |-> FALSE,
              name |-> whole_matched.name,
              values |-> IF re_test_enum_with_paren(enum_value_section)
                         THEN ParenMatches(enum_value_section, 1)
                         ELSE BareMatches(enum_value_section, 1, 1)]

parseEnumDeclaration(source) ==
    LET whole_matched == re_whole_enum_exec(source)
        enum_value_section == whole_matched.section
    IN  IF ~whole_matched.ok THEN Null
        ELSE [isnull |-> FALSE,
              name |-> whole_matched.name,
              values |-> IF re_test_enum_with_paren(enum_value_section)
                         THEN ParenMatches(enum_value_section, 1)
                         ELSE BareMatches(enum_value_section, 1, 0)]

---------------------------------------------------------------------------
(* The projection of a parsed enum to the arguments of the load            *)

columns == <<"key", "code", "label">>

\* guessSchema(enum_values).slice(0, columns.length), zipped with the names
enumToBigQuerySchemaFields(enum_values) ==
    LET types == guessSchema(enum_values)
    IN  [i \in 1..Min({Len(types), Len(columns)}) |->
            [name |-> columns[i], type |-> types[i]]]

\* A row object is the set of its properties [name, value]; a property whose
\* value is undefined is a property all the same.
\* src/unnamed/part_000: if (values[i]) row[columns[i]] = values[i]
enumToBigQueryRows(enum_values) ==
    [k \in 1..Len(enum_values) |->
        {[name |-> columns[i], value |-> enum_values[k][i]] :
            i \in {j \in 1..Len(columns) : Truthy(At(enum_values[k], j))}}]

\* src/index.js: field_types.map((_, i) => (row[columns[i]] = values[i]))
InlineRows(enum_values) ==
    [k \in 1..Len(enum_values) |->
        {[name |-> columns[i], value |-> At(enum_values[k], i)] :
            i \in 1..Len(enumToBigQuerySchemaFields(enum_values))}]

---------------------------------------------------------------------------
(* The source texts the core is run on                                     *)

MaxIds == 3
MaxLits == 5

Enum == <<"e","n","u","m">>
Class == <<"c","l","a","s","s">>
Public == <<"p","u","b","l","i","c"," ">>
Status == <<"S","t","a","t","u","s">>

\* literals as written: 0, 1, true, 1.5, 'r', "G", "Green", "Red", ""
Lit0 == <<"0">>
Lit1 == <<"1">>
LitTrue == <<"t","r","u","e">>
LitDecimal == <<"1",".","5">>
LitSingle == <<"'","r","'">>
LitDouble == <<"\"","G","\"">>
LitGreen == <<"\"","G","r","e","e","n","\"">>
LitRed == <<"\"","R","e","d","\"">>
LitEmpty == <<"\"","\"">>

Literals == {Lit0, LitTrue, LitDecimal, LitSingle, LitDouble, LitEmpty}
LaterLiterals == {Lit1, LitDouble}

Entry(id, paren, lits) == [id |-> id, paren |-> paren, lits |-> lits]

\* a text is written as: prefix keyword gap name open entry sep entry ... term tail
Decl(family, prefix, keyword, gap, name, open, entries, litsep, sep, term, tail) ==
    [family |-> family, prefix |-> prefix, keyword |-> keyword, gap |-> gap,
     name |-> name, open |-> open, entries |-> entries, litsep |-> litsep,
     sep |-> sep, term |-> term, tail |-> tail]

RenderEntry(e, litsep) ==
    e.id \o (IF e.paren THEN <<"(">> \o join(e.lits, litsep) \o <<")">> ELSE <<>>)

Render(d) ==
    d.prefix \o d.keyword \o d.gap \o d.name \o d.open
    \o join([i \in 1..Len(d.entries) |-> RenderEntry(d.entries[i], d.litsep)], d.sep)
    \o d.term \o d.tail

\* Constants without parentheses, after the line of the name, with several
\* kinds of blanks and line breaks between them.
BareIdents == {<<"O","K">>, <<"N","_","2">>, <<"_">>}

BareDecls ==
    { Decl("bare", <<" ">>, Enum, <<" ">>, <<"E">>, open,
           [i \in 1..Len(ids) |-> Entry(ids[i], FALSE, <<>>)],
           <<>>, sep, <<";">>, <<"\n","}">>) :
        ids \in UNION {[1..n -> BareIdents] : n \in 0..MaxIds},
        open \in {<<" ","{","\n"," "," ">>, <<"\n","{","\n">>, <<" ","{","\n">>},
        sep \in {<<",","\n"," "," ">>, <<","," ">>, <<",">>, <<"\n","\t">>} }

\* One constant with 1..MaxLits literals: the first three of every shape.
LiteralLists ==
    UNION { { first \o later : first \in [1..Min({n, 3}) -> Literals],
                                later \in [1..(n - Min({n, 3})) -> LaterLiterals] }
            : n \in 1..MaxLits }

ParenDecls ==
    { Decl("paren", <<" ">>, Enum, <<" ">>, <<"E">>, <<" ","{","\n">>,
           <<Entry(<<"O","K">>, TRUE, lits)>>,
           litsep, <<>>, <<";">>, <<"\n","}">>) :
        lits \in LiteralLists, litsep \in {<<","," ">>, <<",">>} }

\* Two constants with 0..3 literals each (none: the constant has no
\* parentheses), so that the value tuples of one enum differ in length.
ShortLists == UNION {[1..n -> {Lit0, LitDouble}] : n \in 0..3}

RaggedDecls ==
    { Decl("ragged", <<" ">>, Enum, <<" ">>, <<"E">>, <<" ","{","\n">>,
           <<Entry(<<"O","K">>, l1 # <<>>, l1), Entry(<<"N","G">>, l2 # <<>>, l2)>>,
           <<","," ">>, <<",","\n">>, <<";">>, <<"\n","}">>) :
        l1 \in ShortLists, l2 \in ShortLists }

\* enum Status { OK(0, "Green"), NG(1, "Red"); } on one line ("line") and
\* with every constant on a line of its own ("lines"), after "public " or
\* after a blank.
StatusEntries ==
    <<Entry(<<"O","K">>, TRUE, <<Lit0, LitGreen>>),
      Entry(<<"N","G">>, TRUE, <<Lit1, LitRed>>)>>

StatusDecls ==
    { Decl("status_line", prefix, Enum, <<" ">>, Status, <<" ","{"," ">>,
           StatusEntries, <<","," ">>, <<","," ">>, <<";">>, <<" ","}">>) :
        prefix \in {<<" ">>, Public} }
    \cup
    { Decl("status_lines", prefix, Enum, <<" ">>, Status, <<" ","{","\n"," "," ">>,
           StatusEntries, <<","," ">>, <<",","\n"," "," ">>, <<";">>, <<"\n","}">>) :
        prefix \in {<<" ">>, Public} }

\* Texts with and without the keyword, the blank before and after it and
\* the terminator.
BlockDecls ==
    { Decl("block", prefix, keyword, gap, <<"E">>, <<" ","{","\n">>,
           entries, <<","," ">>, <<",","\n">>, term, <<"\n","}">>) :
        prefix \in {<<>>, <<" ">>, <<"\n">>, Public},
        keyword \in {Enum, Class},
        gap \in {<<" ">>, <<" "," ">>, <<"\t">>},
        entries \in {<<>>, <<Entry(<<"O","K">>, FALSE, <<>>)>>,
                     <<Entry(<<"O","K">>, TRUE, <<Lit0>>)>>},
        term \in {<<";">>, <<>>} }

Decls == BareDecls \cup ParenDecls \cup RaggedDecls \cup StatusDecls \cup BlockDecls

Impls == {"index.js", "part_000"}

---------------------------------------------------------------------------
(* The core of the handler on one source text: parse, filter, project      *)

CoreInit ==
    /\ pc = "core_source"
    /\ impl \in Impls
    /\ decl \in Decls
    /\ source_code = Render(decl)
    /\ parsed = Null
    /\ table_id = NoStr /\ bq_schema_fields = NoFields /\ bq_rows = <<>>
    /\ GuessIdle
    /\ CamelIdle
    /\ HandlerIdle

\* contents.map(parseEnumDeclaration)
ParseEnumDeclaration ==
    /\ pc = "core_source"
    /\ parsed' = parseEnumDeclaration(source_code)
    /\ pc' = "core_parsed"
    /\ UNCHANGED <<impl, decl, source_code, table_id, bq_schema_fields, bq_rows,
                   guessVars, camelVars, handlerVars>>

\* variant, for sensitivity: the filter keeps every non-null result, .filter(x => x)
Keeps_NonNull(x) == ~x.isnull

\* .filter(x => x && x.values && 0 < x.values.length)
Keeps(x) == ~x.isnull /\ 0 < Len(x.values)

FilterOut ==
    /\ pc = "core_parsed"
    /\ ~Keeps(parsed)
    /\ pc' = "core_dropped"
    /\ UNCHANGED <<coreVars, guessVars, camelVars, handlerVars>>

\* the callback of the last .map, up to its call of insertRowsToBigQuery
Project ==
    /\ pc = "core_parsed"
    /\ Keeps(parsed)
    /\ table_id' = camelToSnakeCase(parsed.name)
    /\ bq_schema_fields' = enumToBigQuerySchemaFields(parsed.values)
    /\ bq_rows' = IF impl = "index.js" THEN InlineRows(parsed.values)
                  ELSE enumToBigQueryRows(parsed.values)
    /\ pc' = "core_load"
    /\ UNCHANGED <<impl, decl, source_code, parsed, guessVars, camelVars, handlerVars>>

CoreNext == ParseEnumDeclaration \/ FilterOut \/ Project

SpecCore == CoreInit /\ [][CoreNext]_vars

---------------------------------------------------------------------------
(* Claims about the parser and the projection                              *)

\* the token value of a literal as written: its text, without its quotes
TokenValue(lit) ==
    IF lit[1] \in {"'", "\""} THEN SubSeq(lit, 2, Len(lit) - 1) ELSE lit

\* C3: a declaration parsed in bare mode whose value section holds N
\* identifiers gives exactly N tuples [identifier, i], i = 0..N-1 in source
\* order, whatever blanks and line breaks stand between the entries.
C3_BareOrdinals ==
    (/\ pc # "core_source"
     /\ decl.family \in {"bare", "ragged"}
     /\ \A i \in 1..Len(decl.entries) : ~decl.entries[i].paren) =>
        /\ ~parsed.isnull
        /\ Len(parsed.values) = Len(decl.entries)
        /\ \A i \in 1..Len(decl.entries) :
              parsed.values[i] = <<Str(decl.entries[i].id), Num(i - 1)>>

\* C3 witness: three identifiers separated by a comma and a line break have
\* been parsed, the third with ordinal 2
C3_Witness ==
    /\ pc = "core_parsed"
    /\ decl.family = "bare"
    /\ Len(decl.entries) = 3
    /\ decl.sep = <<",","\n"," "," ">>
    /\ Len(parsed.values) = 3
    /\ parsed.values[3] = <<Str(decl.entries[3].id), Num(2)>>

\* C4 as stated: an entry IDENT(lit1, ..., litN) with N >= 4 gives exactly
\* the tuple [IDENT, lit1, lit2, lit3]; the fourth and later literals appear
\* nowhere in it.  (Checked on entries whose first three literals are not
\* empty strings, so that only the later literals are in question.)
C4_Original_LaterLiteralsDropped ==
    (/\ pc # "core_source"
     /\ decl.family = "paren"
     /\ Len(decl.entries[1].lits) >= 4
     /\ \A i \in 1..3 : TokenValue(decl.entries[1].lits[i]) # <<>>) =>
        parsed.values =
            << <<Str(decl.entries[1].id),
                 Str(TokenValue(decl.entries[1].lits[1])),
                 Str(TokenValue(decl.entries[1].lits[2])),
                 Str(TokenValue(decl.entries[1].lits[3]))>> >>

StatusSchema ==
    <<[name |-> "key", type |-> "string"],
      [name |-> "code", type |-> "integer"],
      [name |-> "label", type |-> "string"]>>

StatusRows ==
    <<{[name |-> "key", value |-> Str(<<"O","K">>)],
       [name |-> "code", value |-> Str(<<"0">>)],
       [name |-> "label", value |-> Str(<<"G","r","e","e","n">>)]},
      {[name |-> "key", value |-> Str(<<"N","G">>)],
       [name |-> "code", value |-> Str(<<"1">>)],
       [name |-> "label", value |-> Str(<<"R","e","d">>)]}>>

StatusLoaded ==
    /\ pc = "core_load"
    /\ table_id = <<"s","t","a","t","u","s">>
    /\ bq_schema_fields = StatusSchema
    /\ bq_rows = StatusRows

\* C5 as stated: a source text containing
\* enum Status { OK(0, "Green"), NG(1, "Red"); } ends with table_id "status",
\* the schema key:string, code:integer, label:string and the two rows of OK
\* and NG handed to the load step.
C5_Original_StatusEndToEnd ==
    (pc \in {"core_load", "core_dropped"} /\ decl.family = "status_line") =>
        StatusLoaded

\* the same declaration with each constant on a line of its own is loaded so
StatusOnLinesEndToEnd ==
    (pc \in {"core_load", "core_dropped"} /\ decl.family = "status_lines") =>
        StatusLoaded

\* the text holds `enum`, whitespace, an identifier and a later `;`
HoldsBlock(d) ==
    /\ d.keyword = Enum
    /\ d.gap # <<>> /\ \A i \in 1..Len(d.gap) : d.gap[i] \in WhiteSpace
    /\ d.term = <<";">>

\* C6 as stated: parseEnumDeclaration returns null exactly when the text
\* holds no enum block; every text that holds one, wherever `enum` stands,
\* gives a non-null result, with values = [] for an empty value section.
C6_Original_NullIffNoBlock ==
    (pc # "core_source" /\ decl.family = "block") =>
        /\ parsed.isnull <=> ~HoldsBlock(decl)
        /\ (~parsed.isnull /\ decl.entries = <<>>) => parsed.values = <<>>

\* C7 as stated: the row built from a value tuple of length L holds exactly
\* the columns of positions 0..min(L, 3)-1, each with the tuple's value
\* unchanged, and no entry for a position the tuple lacks.
C7_Original_SparseRows ==
    pc = "core_load" =>
        /\ Len(bq_rows) = Len(parsed.values)
        /\ \A k \in 1..Len(parsed.values) :
              bq_rows[k] =
                  {[name |-> columns[i], value |-> parsed.values[k][i]] :
                      i \in 1..Min({Len(parsed.values[k]), 3})}

---------------------------------------------------------------------------
(* exports.github: the webhook handler and the loads it starts             *)

MaxFiles == 2

\* the contents of the enum source files a pushed commit may hold:
\* no enum at all; an enum on one line (its value section is empty); two
\* files that both declare an enum Status; an enum E
SrcNoEnum == <<" ","c","l","a","s","s"," ","E"," ","{","\n","}">>
SrcOneLine == <<" ","e","n","u","m"," ","E"," ","{"," ","O","K",";"," ","}">>
SrcStatusA == <<" ","e","n","u","m"," ">> \o Status \o
              <<" ","{","\n","O","K","(","0",")",",","\n","N","G","(","1",")",";","\n","}">>
SrcStatusB == <<" ","e","n","u","m"," ">> \o Status \o
              <<" ","{","\n","N","G",";","\n","}">>
SrcOther == <<" ","e","n","u","m"," ","E"," ","{","\n","O","K",";","\n","}">>

Sources == {SrcNoEnum, SrcOneLine, SrcStatusA, SrcStatusB, SrcOther}

\* the tables the dataset may hold
TableIds == {camelToSnakeCase(Status), camelToSnakeCase(<<"E">>)}

\* A table is absent, or holds a set of rows; a row is named by the load
\* that inserted it and its index, load 0 standing for the rows the table
\* held before the event.
Absent == [exists |-> FALSE, content |-> {}]
OldTable == [exists |-> TRUE, content |-> {<<0, 1>>}]

Requests ==
    [signature : {"missing", "invalid", "valid"},
     event : {"push", "ping", "issues"},
     ref : {"target", "other"},
     files : UNION {[1..n -> Sources] : n \in 0..MaxFiles}]

Init ==
    /\ pc = "request"
    /\ impl \in Impls
    /\ req \in Requests
    /\ response = NoResponse
    /\ fetched = 0
    /\ loads = <<>>
    /\ tables \in [TableIds -> {Absent, OldTable}]
    /\ decl = NoDecl /\ source_code = NoStr /\ parsed = Null
    /\ table_id = NoStr /\ bq_schema_fields = NoFields /\ bq_rows = <<>>
    /\ GuessIdle
    /\ CamelIdle

\* verifyGitHubRequst: false without the header, else what verify() says
verifyGitHubRequst(r) == r.signature = "valid"

\* res.sendStatus(400) in part_000; res.status(400), never sent, in index.js
Status400 == [status |-> 400, sent |-> impl = "part_000"]

Sent(status) == [status |-> status, sent |-> TRUE]

VerificationFailed ==
    /\ pc = "request"
    /\ ~verifyGitHubRequst(req)
    /\ response' = Status400
    /\ pc' = "returned"
    /\ UNCHANGED <<req, fetched, loads, tables, guessVars, camelVars, coreVars>>

Ping ==
    /\ pc = "request"
    /\ verifyGitHubRequst(req)
    /\ req.event = "ping"
    /\ response' = Sent(200)
    /\ pc' = "returned"
    /\ UNCHANGED <<req, fetched, loads, tables, guessVars, camelVars, coreVars>>

UnknownEvent ==
    /\ pc = "request"
    /\ verifyGitHubRequst(req)
    /\ req.event \notin {"push", "ping"}
    /\ response' = Status400
    /\ pc' = "returned"
    /\ UNCHANGED <<req, fetched, loads, tables, guessVars, camelVars, coreVars>>

\* part_000 only: config.targetBranch !== req.body.ref
NotTargetBranch ==
    /\ pc = "request"
    /\ verifyGitHubRequst(req)
    /\ req.event = "push"
    /\ impl = "part_000" /\ req.ref # "target"
    /\ response' = Sent(200)
    /\ pc' = "returned"
    /\ UNCHANGED <<req, fetched, loads, tables, guessVars, camelVars, coreVars>>

\* getAllEnumSourceFromRepository / getSourcesFromRepository is called:
\* getTree, then getContent for every enum source file of the tree
GetTree ==
    /\ pc = "request"
    /\ verifyGitHubRequst(req)
    /\ req.event = "push"
    /\ impl = "part_000" => req.ref = "target"
    /\ pc' = "fetching"
    /\ UNCHANGED <<req, response, fetched, loads, tables,
                   guessVars, camelVars, coreVars>>

GetContent ==
    /\ pc = "fetching"
    /\ fetched < Len(req.files)
    /\ fetched' = fetched + 1
    /\ UNCHANGED <<pc, req, response, loads, tables, guessVars, camelVars, coreVars>>

\* a request to GitHub is rejected: .catch sends 500
FetchFailed ==
    /\ pc = "fetching"
    /\ response' = Sent(500)
    /\ pc' = "returned"
    /\ UNCHANGED <<req, fetched, loads, tables, guessVars, camelVars, coreVars>>

\* insertRowsToBigQuery(projectId, datasetId, tableId, fields, rows) as
\* called for the file at index file: the call is at its first request
NewLoad(file, x) ==
    [file |-> file,
     tableId |-> camelToSnakeCase(x.name),
     fields |-> enumToBigQuerySchemaFields(x.values),
     rows |-> IF impl = "index.js" THEN InlineRows(x.values)
              ELSE enumToBigQueryRows(x.values),
     st |-> "dataset_get"]

\* contents.map(parseEnumDeclaration).filter(...).map(... insertRowsToBigQuery)
StartedLoads(files) ==
    LET kept == SelectSeq([i \in 1..Len(files) |->
                              [file |-> i, x |-> parseEnumDeclaration(files[i])]],
                          LAMBDA e : Keeps(e.x))
    IN  [k \in 1..Len(kept) |-> NewLoad(kept[k].file, kept[k].x)]

\* The callback of .then(contents => ...) starts every load.  index.js sends
\* 200 in the next callback, with no request answered in between;
\* part_000 waits for Promise.all of the loads.
StartLoads ==
    /\ pc = "fetching"
    /\ fetched = Len(req.files)
    /\ loads' = StartedLoads(req.files)
    /\ IF impl = "index.js"
       THEN response' = Sent(200) /\ pc' = "returned"
       ELSE response' = response /\ pc' = "loading"
    /\ UNCHANGED <<req, fetched, tables, guessVars, camelVars, coreVars>>

Settled(l) == l.st \in {"done", "failed"}

\* bigquery.dataset(datasetId).get({ autoCreate: true })
DatasetGetOf(k) ==
    /\ loads[k].st = "dataset_get"
    /\ loads' = [loads EXCEPT ![k].st = "exists"]
    /\ UNCHANGED <<pc, req, response, fetched, tables, guessVars, camelVars, coreVars>>

DatasetGet == \E k \in 1..Len(loads) : DatasetGetOf(k)

\* table.exists(): the answer decides between table.delete() and the creation
TableExistsOf(k) ==
    /\ loads[k].st = "exists"
    /\ loads' = [loads EXCEPT ![k].st =
                    IF tables[loads[k].tableId].exists THEN "delete" ELSE "create"]
    /\ UNCHANGED <<pc, req, response, fetched, tables, guessVars, camelVars, coreVars>>

TableExists == \E k \in 1..Len(loads) : TableExistsOf(k)

\* table.delete(): rejected (404) when the table is gone by now
TableDeleteOf(k) ==
    /\ loads[k].st = "delete"
    /\ IF tables[loads[k].tableId].exists
       THEN /\ tables' = [tables EXCEPT ![loads[k].tableId] = Absent]
            /\ loads' = [loads EXCEPT ![k].st = "create"]
       ELSE /\ tables' = tables
            /\ loads' = [loads EXCEPT ![k].st = "failed"]
    /\ UNCHANGED <<pc, req, response, fetched, guessVars, camelVars, coreVars>>

TableDelete == \E k \in 1..Len(loads) : TableDeleteOf(k)

\* table.get({ schema, autoCreate: true }): creates the table when absent
TableCreateOf(k) ==
    /\ loads[k].st = "create"
    /\ tables' = [tables EXCEPT ![loads[k].tableId] =
                     IF @.exists THEN @ ELSE [exists |-> TRUE, content |-> {}]]
    /\ loads' = [loads EXCEPT ![k].st = "insert"]
    /\ UNCHANGED <<pc, req, response, fetched, guessVars, camelVars, coreVars>>

TableCreate == \E k \in 1..Len(loads) : TableCreateOf(k)

RowsOf(k) == {<<k, i>> : i \in 1..Len(loads[k].rows)}

\* table.insert(rows): all rows are inserted, or (PartialFailureError) only
\* some; rejected when the table is gone by now
TableInsertOf(k) ==
    /\ loads[k].st = "insert"
    /\ IF tables[loads[k].tableId].exists
       THEN \E some \in SUBSET RowsOf(k) :
               /\ tables' = [tables EXCEPT ![loads[k].tableId].content = @ \cup some]
               /\ loads' = [loads EXCEPT ![k].st =
                               IF some = RowsOf(k) THEN "done" ELSE "failed"]
       ELSE /\ tables' = tables
            /\ loads' = [loads EXCEPT ![k].st = "failed"]
    /\ UNCHANGED <<pc, req, response, fetched, guessVars, camelVars, coreVars>>

TableInsert == \E k \in 1..Len(loads) : TableInsertOf(k)

\* variant, for sensitivity: a rejected request ends every load under way,
\* as one rejection ends a chain the loads would share
LoadErrorOf_AbortsAll(k) ==
    /\ ~Settled(loads[k])
    /\ loads' = [j \in 1..Len(loads) |->
                    IF Settled(loads[j]) THEN loads[j]
                    ELSE [loads[j] EXCEPT !.st = "failed"]]
    /\ UNCHANGED <<pc, req, response, fetched, tables, guessVars, camelVars, coreVars>>

\* any request of a load is rejected: its .catch logs the error
LoadErrorOf(k) ==
    /\ ~Settled(loads[k])
    /\ loads' = [loads EXCEPT ![k].st = "failed"]
    /\ UNCHANGED <<pc, req, response, fetched, tables, guessVars, camelVars, coreVars>>

LoadError == \E k \in 1..Len(loads) : LoadErrorOf(k)

\* part_000: .then(x => Promise.all(x)).then(results => res.status(200).send(results))
Respond ==
    /\ pc = "loading"
    /\ \A k \in 1..Len(loads) : Settled(loads[k])
    /\ response' = Sent(200)
    /\ pc' = "returned"
    /\ UNCHANGED <<req, fetched, loads, tables, guessVars, camelVars, coreVars>>

Next ==
    \/ VerificationFailed \/ Ping \/ UnknownEvent \/ NotTargetBranch
    \/ GetTree \/ GetContent \/ FetchFailed \/ StartLoads \/ Respond
    \/ DatasetGet \/ TableExists \/ TableDelete
    \/ TableCreate \/ TableInsert \/ LoadError

Spec == Init /\ [][Next]_vars

\* the next request of the load at index k, answered or rejected
LoadStepOf(k) ==
    \/ DatasetGetOf(k) \/ TableExistsOf(k) \/ TableDeleteOf(k)
    \/ TableCreateOf(k) \/ TableInsertOf(k) \/ LoadErrorOf(k)

LoadStep == \E k \in 1..Len(loads) : LoadStepOf(k)

\* Every request made to BigQuery is answered or rejected in the end, and the
\* event loop runs the callback of a settled promise: while a load is under
\* way, some load takes its next step.
SpecFair == Spec /\ WF_vars(LoadStep)

---------------------------------------------------------------------------
(* Claims about the handler and the loads                                  *)

\* C9: a load is started only for a declaration that parsed to a non-null
\* result with at least one value tuple, and only in a request whose
\* signature verification succeeded and whose event is push; a file that
\* parses to null or to no values, a missing or invalid signature and a
\* non-push event cause neither a source fetch nor a load.
C9_LoadsOnlyForParsedPush ==
    /\ (pc = "fetching" \/ fetched > 0 \/ loads # <<>>) =>
          (req.signature = "valid" /\ req.event = "push")
    /\ \A k \in 1..Len(loads) :
          LET x == parseEnumDeclaration(req.files[loads[k].file])
          IN  ~x.isnull /\ Len(x.values) >= 1
    /\ \A k, m \in 1..Len(loads) : loads[k].file = loads[m].file => k = m

\* C9 witness: of two fetched files, one with an empty value section and one
\* with a constant, only the second has a load, which has begun
C9_Witness ==
    /\ Len(loads) = 1
    /\ Len(req.files) = 2
    /\ req.files[1] = SrcOneLine
    /\ loads[1].file = 2
    /\ loads[1].st = "insert"

\* C10 as stated (its second half): when all loads of a push event have
\* settled, under every interleaving, each table written to holds the rows
\* of exactly one declaration of the event, with no row from before the
\* event and no mix of two declarations.  (Stated for the runs in which
\* every load succeeded.)
C10_Original_OneDeclarationPerTable ==
    (loads # <<>> /\ \A k \in 1..Len(loads) : loads[k].st = "done") =>
        \A t \in TableIds :
            (\E k \in 1..Len(loads) : loads[k].tableId = t) =>
                \E k \in 1..Len(loads) :
                    /\ loads[k].tableId = t
                    /\ tables[t].exists
                    /\ tables[t].content = RowsOf(k)

\* the first half of C10: within one load the requests follow one another
\* in the order exists, delete, create, insert
LoadStepsInOrder ==
    [][\A k \in 1..Len(loads) :
          Len(loads') = Len(loads) =>
              \/ loads'[k].st = loads[k].st
              \/ loads'[k].st = "failed"
              \/ <<loads[k].st, loads'[k].st>> \in
                    {<<"dataset_get", "exists">>, <<"exists", "delete">>,
                     <<"exists", "create">>, <<"delete", "create">>,
                     <<"create", "insert">>, <<"insert", "done">>}]_vars

\* a step of the load at index k moves that load to its next request or to
\* its end, and touches no other load and no other table
OnlyLoadChanges(k) ==
    /\ Len(loads') = Len(loads)
    /\ loads'[k] = [loads[k] EXCEPT !.st = loads'[k].st]
    /\ \A j \in 1..Len(loads) : j # k => loads'[j] = loads[j]
    /\ \A t \in DOMAIN tables : t # loads[k].tableId => tables'[t] = tables[t]

\* C11: a failure of one table's load (a partial insert or any rejected
\* request) does not abort the other loads of the push event: every
\* declaration that passed the filter has its load started, the step in
\* which a load fails or proceeds leaves every other load and every other
\* table as it was, and every load started runs to its end, done or failed,
\* whichever loads fail and in whatever order they settle.
C11_FailureDoesNotAbortOthers ==
    /\ [][loads = <<>> /\ pc' \in {"loading", "returned"} /\ pc = "fetching"
             /\ response'.status # 500 =>
                loads' = StartedLoads(req.files)]_vars
    /\ [][loads # <<>> =>
             \/ loads' = loads
             \/ \E k \in 1..Len(loads) :
                    loads'[k] # loads[k] /\ OnlyLoadChanges(k)]_vars
    /\ (loads # <<>>) ~> (\A k \in 1..Len(loads) : Settled(loads[k]))

\* C11 witness: of the two loads of an event, on two tables, the first has
\* failed and the second has inserted all its rows
C11_Witness ==
    /\ Len(loads) = 2
    /\ loads[1].tableId # loads[2].tableId
    /\ loads[1].st = "failed"
    /\ loads[2].st = "done"
    /\ tables[loads[2].tableId].content = RowsOf(2)

\* the request is a push that passed verification (and, in part_000, is of
\* the target branch): the branch that fetches sources and starts loads
IsLoadingPush ==
    /\ verifyGitHubRequst(req)
    /\ req.event = "push"
    /\ impl = "part_000" => req.ref = "target"

NoLoadInFlight == \A k \in 1..Len(loads) : Settled(loads[k])

\* C12 as stated: the response to a push, 200 or 500, is sent only after
\* every source file has been fetched and every load started for the event
\* has settled; no load is in flight when the response is sent.
C12_Original_ResponseAfterLoads ==
    (IsLoadingPush /\ response.sent) =>
        /\ response.status = 200 => fetched = Len(req.files)
        /\ NoLoadInFlight

\* the handler of part_000, which passes the loads to Promise.all, answers
\* only when no load is in flight
AwaitsLoadsWithPromiseAll ==
    (impl = "part_000" /\ IsLoadingPush /\ response.sent) =>
        /\ response.status = 200 => fetched = Len(req.files)
        /\ NoLoadInFlight

\* the tuple [IDENT, token value of lit1, ..., token value of litK]
TupleOf(e) ==
    <<Str(e.id)>> \o [i \in 1..Len(e.lits) |-> Str(TokenValue(e.lits[i]))]

\* C13 as stated: an entry IDENT(lit1, ..., litK) with 1 <= K <= 3 literals
\* of any shape, an empty quoted string included, gives a tuple of length
\* K+1 whose element 0 is IDENT and whose element i is the token value of
\* the i-th literal without its quotes.
C13_Original_ShortTuples ==
    (/\ pc # "core_source"
     /\ decl.family = "paren"
     /\ Len(decl.entries[1].lits) <= 3) =>
        parsed.values = <<TupleOf(decl.entries[1])>>

\* the same holds of the entries none of whose literals is an empty string
ShortTuplesOfNonEmptyLiterals ==
    (/\ pc # "core_source"
     /\ decl.family = "paren"
     /\ Len(decl.entries[1].lits) <= 3
     /\ \A i \in 1..Len(decl.entries[1].lits) :
           TokenValue(decl.entries[1].lits[i]) # <<>>) =>
        parsed.values = <<TupleOf(decl.entries[1])>>

=============================================================================
